---- MODULE Spec2Model ----
(***************************************************************************)
(* bluesky_network.py: a one-hop crawl of the Bluesky follow graph of one  *)
(* seed account into two PostgreSQL tables, accounts and connections.      *)
(*                                                                         *)
(* The database is modelled by its two tables, their SERIAL sequences and  *)
(* whether the tables exist.  A JSON object is a function from its keys    *)
(* to its values; Python's None is the value None.  SQL NULL in a text     *)
(* column is the value NULL.                                               *)
(***************************************************************************)
EXTENDS Integers, Sequences, FiniteSets, TLC

\* ------------------------------------------------------------ bounds
\* Longest follow-list the upstream API returns.
MaxFollows == 2
\* Runs of main() against the same database.
MaxRuns == 2
\* Store driver: longest batch handed to add_accounts / add_connections.
MaxBatch == 2
\* Store driver: number of calls made.
MaxCalls == 3
\* Failures and anomalous answers the environment produces over the runs (a
\* storage failure, a failed connect, a fetch that does not return the profile
\* asked for, a follow-list that fails or lists a handle twice or the seed, a
\* failure while reporting).
MaxFaults == 2

\* ------------------------------------------------------------ values
SEED == "choltern.bsky.social"
Handles == {SEED, "bob", "carol"}

None == [none |-> TRUE]
NULL == "NULL"

\* dict.get(key, default)
Get(d, key, default) == IF key \in DOMAIN d THEN d[key] ELSE default

\* What getProfile can answer with status 200 and a JSON body, whatever handle
\* was asked for (the code never compares the two): a full profile or a
\* profile with only the handle, of any account; an object without handle; an
\* object whose handle is null; a JSON value that is not an object.
FullProfile(h) ==
    [handle |-> h, displayName |-> "name", description |-> "bio", followsCount |-> 1]
BareProfile(h) == [handle |-> h]
NoHandleBody == [message |-> "no profile"]
NullHandleBody == [handle |-> NULL]
NonObjectBody == [list |-> TRUE]
ProfileBodies(h) ==
    {FullProfile(g) : g \in Handles} \cup {BareProfile(g) : g \in Handles}
    \cup {NoHandleBody, NullHandleBody, NonObjectBody}

Range(s) == {s[i] : i \in 1..Len(s)}
SeqsUpTo(S, n) == UNION {[1..k -> S] : k \in 0..n}

\* ------------------------------------------------------------ database
\* The state of the database as one value.
DBState(t, a, c, sa, sc) ==
    [tables |-> t, accounts |-> a, connections |-> c,
     accounts_seq |-> sa, connections_seq |-> sc]

\* How the storage can fail a call for a reason of its own:
\*   "none"               it does not;
\*   "statement"          the statement raises, conn.rollback() returns;
\*   "commit"             the statement runs, conn.commit() raises, the
\*                        rollback returns;
\*   "lost"               the connection is lost: the statement raises, and
\*                        conn.rollback() in the handler raises too;
\*   "lost_at_commit"     the same at conn.commit(), before the server has
\*                        committed;
\*   "lost_after_commit"  the server commits and the connection is lost before
\*                        its answer: conn.commit() raises, conn.rollback()
\*                        raises, and the transaction is stored.
\* The handlers call conn.rollback() outside any try, so that in the last
\* three cases the exception of rollback leaves the function.  drawn is the
\* number of rows of a bulk INSERT that drew their nextval before the
\* statement raised.
Fail(kind, drawn) == [kind |-> kind, drawn |-> drawn]
NoFail == Fail("none", 0)
StatementFails == Fail("statement", 0)
ConnectionLost == Fail("lost", 0)
Lost == {"lost", "lost_at_commit", "lost_after_commit"}
AtStatement == {"statement", "lost"}
AtCommit == {"commit", "lost_at_commit"}
Fails ==
    {Fail(k, 0) : k \in {"none"} \cup AtStatement \cup AtCommit \cup Lost}
    \cup {Fail(k, d) : k \in AtStatement, d \in 1..MaxBatch}

Min(a, b) == IF a <= b THEN a ELSE b

\* The end of a call whose handler ran: its rollback returned, or raised.
\* applied tells whether the server committed the transaction of the call.
Failed(db, fail) ==
    [db |-> db, outcome |-> IF fail.kind \in Lost THEN "raised" ELSE "rolled_back",
     lost |-> fail.kind \in Lost, applied |-> FALSE]

\* The end of a call whose transaction the server committed: conn.commit()
\* returned, or the connection was lost before its answer.
Committed(db, fail) ==
    [db |-> db,
     outcome |-> IF fail.kind = "lost_after_commit" THEN "raised" ELSE "committed",
     lost |-> fail.kind = "lost_after_commit", applied |-> TRUE]

\* CREATE TABLE IF NOT EXISTS accounts ..., connections ...; commit.
create_tables_if_not_exist(db, fail) ==
    IF fail.kind \in AtStatement \cup AtCommit THEN Failed(db, fail)
    ELSE Committed([db EXCEPT !.tables = TRUE], fail)

\* Mutant: TRUNCATE TABLE accounts only, the connections left behind.
empty_tables_accounts_only(db, fail) ==
    IF fail.kind \in AtStatement \cup AtCommit THEN Failed(db, fail)
    ELSE IF ~db.tables THEN Failed(db, StatementFails)
    ELSE Committed([db EXCEPT !.accounts = {}, !.accounts_seq = 0], fail)

\* Mutant: TRUNCATE without RESTART IDENTITY.
empty_tables_keep_identity(db, fail) ==
    IF fail.kind \in AtStatement \cup AtCommit THEN Failed(db, fail)
    ELSE IF ~db.tables THEN Failed(db, StatementFails)
    ELSE Committed([db EXCEPT !.accounts = {}, !.connections = {}], fail)

\* TRUNCATE TABLE connections, accounts RESTART IDENTITY; commit.  TRUNCATE
\* raises when the tables do not exist; the whole statement, the restart of
\* the sequences included, is undone by a rollback.
empty_tables(db, fail) ==
    IF fail.kind \in AtStatement \cup AtCommit THEN Failed(db, fail)
    ELSE IF ~db.tables THEN Failed(db, StatementFails)
    ELSE Committed([db EXCEPT !.accounts = {}, !.connections = {},
                              !.accounts_seq = 0, !.connections_seq = 0], fail)

\* The row INSERT builds for one record: account_id from the sequence, the two
\* columns the statement does not name at their DEFAULT 0.
NewAccountRow(id, r) ==
    [account_id |-> id, handle |-> r.handle, display_name |-> r.display_name,
     description |-> r.description, following_count |-> r.following_count,
     network_followed_count |-> 0, min_distance_from_start |-> 0]

\* Mutant: the update adds the new following_count to the stored one.
UpdateAccountRowMerging(row, r) ==
    [row EXCEPT !.display_name = r.display_name,
                !.description = r.description,
                !.following_count = row.following_count + r.following_count]

\* Mutant: the update keeps a stored text where the new profile has none
\* (SET display_name = COALESCE(EXCLUDED.display_name, accounts.display_name)).
UpdateAccountRowCoalescing(row, r) ==
    [row EXCEPT !.display_name = IF r.display_name = NULL THEN row.display_name
                                 ELSE r.display_name,
                !.description = IF r.description = NULL THEN row.description
                                ELSE r.description,
                !.following_count = r.following_count]

\* ON CONFLICT (handle) DO UPDATE SET display_name, description, following_count.
UpdateAccountRow(row, r) ==
    [row EXCEPT !.display_name = r.display_name,
                !.description = r.description,
                !.following_count = r.following_count]

\* INSERT ... VALUES records ON CONFLICT (handle) DO UPDATE, row by row: every
\* proposed row draws nextval of the sequence, inserted or not.
RECURSIVE UpsertRows(_, _, _)
UpsertRows(rows, seq, records) ==
    IF records = <<>> THEN [accounts |-> rows, seq |-> seq]
    ELSE LET r == Head(records)
             id == seq + 1
             hit == {a \in rows : a.handle = r.handle}
             rows2 == IF hit = {} THEN rows \cup {NewAccountRow(id, r)}
                      ELSE (rows \ hit) \cup {UpdateAccountRow(a, r) : a \in hit}
         IN  UpsertRows(rows2, id, Tail(records))

\* The list comprehension of add_accounts: one tuple per entry that is not None.
\* account_data['handle'] raises KeyError on an object without that key, and
\* TypeError on a value that is not an object.
RaisesKeyError(accounts_data) ==
    \E i \in 1..Len(accounts_data) :
        accounts_data[i] # None /\ "handle" \notin DOMAIN accounts_data[i]

AccountRecord(d) ==
    [handle |-> d["handle"],
     display_name |-> Get(d, "displayName", NULL),
     description |-> Get(d, "description", NULL),
     following_count |-> Get(d, "followsCount", 0)]

RECURSIVE AccountRecords(_)
AccountRecords(accounts_data) ==
    IF accounts_data = <<>> THEN <<>>
    ELSE IF Head(accounts_data) = None THEN AccountRecords(Tail(accounts_data))
    ELSE <<AccountRecord(Head(accounts_data))>> \o AccountRecords(Tail(accounts_data))

\* The first row of the statement that the statement itself already inserted or
\* updated ("ON CONFLICT DO UPDATE command cannot affect row a second time"),
\* or with a NULL handle (NOT NULL); 0 when there is none.
FirstBadRow(records) ==
    LET bad == {j \in 1..Len(records) :
                   \/ records[j].handle = NULL
                   \/ \E i \in 1..(j - 1) : records[i].handle = records[j].handle}
    IN  IF bad = {} THEN 0 ELSE CHOOSE j \in bad : \A k \in bad : j <= k

\* Mutant: the rows are committed one by one, so that a statement that fails at
\* a row leaves the rows before it stored.
add_accounts_row_by_row(db, accounts_data, fail) ==
    IF accounts_data = <<>>
    THEN [db |-> db, outcome |-> "no_data", records |-> <<>>, lost |-> FALSE,
          applied |-> FALSE]
    ELSE IF RaisesKeyError(accounts_data)
    THEN [db |-> db, outcome |-> "raised", records |-> <<>>, lost |-> FALSE,
          applied |-> FALSE]
    ELSE LET records == AccountRecords(accounts_data)
             bad == FirstBadRow(records)
             done == IF bad = 0 THEN records ELSE SubSeq(records, 1, bad - 1)
             up == UpsertRows(db.accounts, db.accounts_seq, done)
         IN  IF fail.kind \in AtStatement \cup AtCommit \/ ~db.tables
             THEN Failed(db, fail) @@ [records |-> records]
             ELSE IF bad # 0
             THEN Failed([db EXCEPT !.accounts = up.accounts, !.accounts_seq = up.seq],
                         StatementFails) @@ [records |-> records]
             ELSE Committed([db EXCEPT !.accounts = up.accounts, !.accounts_seq = up.seq],
                            fail) @@ [records |-> records]

\* add_accounts(conn, accounts_data).  The result names the database after the
\* call, the records the call prepared, whether the connection was lost in
\* it, and how the call ended:
\*   "no_data"      the early return, nothing prepared;
\*   "raised"       an exception left the function: KeyError or TypeError of
\*                  the comprehension, which is outside its try, or the
\*                  exception of conn.rollback() in its handler;
\*   "committed"    the statement ran and conn.commit() returned;
\*   "rolled_back"  an exception was caught and conn.rollback() returned.
\* A rollback does not undo nextval: the sequence keeps what the statement drew.
add_accounts(db, accounts_data, fail) ==
    IF accounts_data = <<>>
    THEN [db |-> db, outcome |-> "no_data", records |-> <<>>, lost |-> FALSE,
          applied |-> FALSE]
    ELSE IF RaisesKeyError(accounts_data)
    THEN [db |-> db, outcome |-> "raised", records |-> <<>>, lost |-> FALSE,
          applied |-> FALSE]
    ELSE LET records == AccountRecords(accounts_data)
             bad == FirstBadRow(records)
             up == UpsertRows(db.accounts, db.accounts_seq, records)
             \* rows that drew their nextval before the storage failed the
             \* statement: none without tables, none past a row that fails
             \* the statement by itself.
             drawn == IF ~db.tables THEN 0
                      ELSE Min(fail.drawn, IF bad # 0 THEN bad ELSE Len(records))
         IN  IF fail.kind \in AtStatement
             THEN Failed([db EXCEPT !.accounts_seq = db.accounts_seq + drawn], fail)
                  @@ [records |-> records]
             ELSE IF records = <<>>
             THEN \* execute_values sends no statement for an empty list.
                  IF fail.kind \in AtCommit THEN Failed(db, fail) @@ [records |-> records]
                  ELSE Committed(db, fail) @@ [records |-> records]
             ELSE IF ~db.tables
             THEN Failed(db, StatementFails) @@ [records |-> records]
             ELSE IF bad # 0
             THEN Failed([db EXCEPT !.accounts_seq = db.accounts_seq + bad], StatementFails)
                  @@ [records |-> records]
             ELSE IF fail.kind \in AtCommit
             THEN Failed([db EXCEPT !.accounts_seq = up.seq], fail)
                  @@ [records |-> records]
             ELSE Committed([db EXCEPT !.accounts = up.accounts, !.accounts_seq = up.seq],
                            fail) @@ [records |-> records]

\* SELECT account_id FROM accounts WHERE handle = %s; fetchone().
AccountIds(rows, handle) == {a.account_id : a \in {b \in rows : b.handle = handle}}

\* Mutant: the loop stops at the first edge with a handle that is not found.
RECURSIVE ConnectionRecordsStopAtMissing(_, _)
ConnectionRecordsStopAtMissing(rows, connections_data) ==
    IF connections_data = <<>> THEN <<>>
    ELSE LET e == Head(connections_data)
             follower_id == {a.account_id : a \in {b \in rows : b.handle = e[1]}}
             following_id == {a.account_id : a \in {b \in rows : b.handle = e[2]}}
         IN  IF follower_id # {} /\ following_id # {}
             THEN <<[follower_id |-> CHOOSE x \in follower_id : TRUE,
                     following_id |-> CHOOSE x \in following_id : TRUE]>>
                  \o ConnectionRecordsStopAtMissing(rows, Tail(connections_data))
             ELSE <<>>

\* The loop of add_connections: the (follower_id, following_id) pairs of the
\* edges whose two handles are both found, in batch order.
RECURSIVE ConnectionRecords(_, _)
ConnectionRecords(rows, connections_data) ==
    IF connections_data = <<>> THEN <<>>
    ELSE LET e == Head(connections_data)
             follower_id == AccountIds(rows, e[1])
             following_id == AccountIds(rows, e[2])
             rest == ConnectionRecords(rows, Tail(connections_data))
         IN  IF follower_id # {} /\ following_id # {}
             THEN <<[follower_id |-> CHOOSE x \in follower_id : TRUE,
                     following_id |-> CHOOSE x \in following_id : TRUE]>> \o rest
             ELSE rest

\* Mutant: a plain INSERT, without ON CONFLICT DO NOTHING and without the
\* UNIQUE constraint to stop it.
RECURSIVE InsertConnectionsNoConflict(_, _, _)
InsertConnectionsNoConflict(rows, seq, records) ==
    IF records = <<>> THEN [connections |-> rows, seq |-> seq]
    ELSE InsertConnectionsNoConflict(
             rows \cup {[connection_id |-> seq + 1,
                         follower_id |-> Head(records).follower_id,
                         following_id |-> Head(records).following_id]},
             seq + 1, Tail(records))

\* INSERT INTO connections ... VALUES records ON CONFLICT DO NOTHING, row by row.
RECURSIVE InsertConnections(_, _, _)
InsertConnections(rows, seq, records) ==
    IF records = <<>> THEN [connections |-> rows, seq |-> seq]
    ELSE LET r == Head(records)
             id == seq + 1
             hit == {c \in rows : c.follower_id = r.follower_id
                                  /\ c.following_id = r.following_id}
             rows2 == IF hit = {}
                      THEN rows \cup {[connection_id |-> id,
                                       follower_id |-> r.follower_id,
                                       following_id |-> r.following_id]}
                      ELSE rows
         IN  InsertConnections(rows2, id, Tail(records))

\* add_connections(conn, connections_data).  Outcomes as for add_accounts, and
\*   "nothing_resolved"  no edge had both handles stored: no insert, no commit.
\* A storage failure at the statement is one of a SELECT (nothing drawn) or of
\* the INSERT.
add_connections(db, connections_data, fail) ==
    IF connections_data = <<>>
    THEN [db |-> db, outcome |-> "no_data", records |-> <<>>, lost |-> FALSE,
          applied |-> FALSE]
    ELSE LET records == ConnectionRecords(db.accounts, connections_data)
             ins == InsertConnections(db.connections, db.connections_seq, records)
             drawn == IF ~db.tables THEN 0 ELSE Min(fail.drawn, Len(records))
         IN  IF fail.kind \in AtStatement
             THEN Failed([db EXCEPT !.connections_seq = db.connections_seq + drawn], fail)
                  @@ [records |-> <<>>]
             ELSE IF ~db.tables
             THEN Failed(db, StatementFails) @@ [records |-> <<>>]
             ELSE IF records = <<>>
             THEN [db |-> db, outcome |-> "nothing_resolved", records |-> records,
                   lost |-> FALSE, applied |-> FALSE]
             ELSE IF fail.kind \in AtCommit
             THEN Failed([db EXCEPT !.connections_seq = ins.seq], fail)
                  @@ [records |-> records]
             ELSE Committed([db EXCEPT !.connections = ins.connections,
                                       !.connections_seq = ins.seq], fail)
                  @@ [records |-> records]

\* ------------------------------------------------------------ state
VARIABLES
    \* the database
    tables, accounts, connections, accounts_seq, connections_seq,
    \* main(): its position, the number of the run, the connection (open
    \* until conn.close(); broken once it was lost, every call on it raising;
    \* its transaction aborted once a statement raised and until a rollback,
    \* every statement in between raising)
    pc, run, conn_open, conn_broken, tx_aborted,
    \* the failures and anomalous answers produced so far
    faults,
    \* locals of fetch_and_add_initial_account and add_followed_accounts
    \* (follows: "none" before the follow-list request, then "ok" or "failed")
    choltern_data, follows, following_list, accounts_data, pending,
    \* local of main(): the value count_accounts returned
    total_accounts,
    \* the two report files
    report,
    \* history of the current run: the outcome of each store call in order; the
    \* records add_accounts prepared for the followed accounts and the pairs
    \* add_followed_accounts gave add_connections (each a sequence of zero or one
    \* batch); the database rows at the start of the run
    store_log, acc_batch, conn_batch, prior,
    \* history of the previous run, kept when the next run replays its upstream
    previous,
    \* store driver: the last call made
    last

dbvars == <<tables, accounts, connections, accounts_seq, connections_seq>>
locals == <<choltern_data, follows, following_list, accounts_data, pending, total_accounts>>
history == <<store_log, acc_batch, conn_batch, prior, previous>>
vars == <<dbvars, pc, run, conn_open, conn_broken, tx_aborted, faults, locals, report, history, last>>

DB == DBState(tables, accounts, connections, accounts_seq, connections_seq)

SetDB(db) ==
    /\ tables' = db.tables
    /\ accounts' = db.accounts
    /\ connections' = db.connections
    /\ accounts_seq' = db.accounts_seq
    /\ connections_seq' = db.connections_seq

\* A task of the fan-out that has not returned yet.
Pending == [pending |-> TRUE]
NoPrevious == [replay |-> FALSE]
NoCall == [op |-> "none", n |-> 0, arg |-> <<>>, outcome |-> "none"]
\* A report file: the rows written to it, and whether it ends in a piece of a
\* further row.
WholeFile(rows) == [rows |-> rows, cut |-> FALSE]
NoReport == [written |-> FALSE, accounts_file |-> WholeFile({}),
             connections_file |-> WholeFile({})]

\* The log entry of a store call: how it ended, and whether the server
\* committed its transaction.
Logged(op, res) ==
    Append(store_log, [op |-> op, outcome |-> res.outcome, applied |-> res.applied])

\* A profile fetch succeeded: it returned a body that carries the handle asked for.
FetchedProfile(d, h) == d # None /\ d # Pending /\ "handle" \in DOMAIN d /\ d["handle"] = h

\* What the storage may do to the next call: on a broken connection every call
\* raises, and so does the rollback of its handler.
FailChoices ==
    IF conn_broken THEN {ConnectionLost}
    ELSE IF faults < MaxFaults THEN Fails ELSE {NoFail}

\* The store call made with fail ended as res.  Its handler rolled back an
\* exception it caught, so that no aborted transaction is left behind.
StoreCallMade(fail, res) ==
    /\ SetDB(res.db)
    /\ conn_broken' = (conn_broken \/ res.lost)
    /\ UNCHANGED tx_aborted
    /\ faults' = IF fail.kind # "none" /\ ~conn_broken THEN faults + 1 ELSE faults

\* The database does not exist before the first run.
Init ==
    /\ tables = FALSE /\ accounts = {} /\ connections = {}
    /\ accounts_seq = 0 /\ connections_seq = 0
    /\ pc = "connect" /\ run = 1 /\ conn_open = FALSE /\ conn_broken = FALSE
    /\ tx_aborted = FALSE
    /\ faults = 0
    /\ choltern_data = Pending /\ follows = "none" /\ following_list = <<>>
    /\ accounts_data = <<>> /\ pending = {}
    /\ total_accounts = 0
    /\ report = NoReport
    /\ store_log = <<>> /\ acc_batch = <<>> /\ conn_batch = <<>>
    /\ prior = [accounts |-> {}, connections |-> {}]
    /\ previous = NoPrevious
    /\ last = NoCall

\* ------------------------------------------------------------ main()
\* conn = connect_db(); on OperationalError the process exits with status 1.
Connect ==
    /\ pc = "connect"
    /\ \E ok \in IF faults < MaxFaults THEN BOOLEAN ELSE {TRUE} :
        /\ conn_open' = ok
        /\ pc' = IF ok THEN "create" ELSE "exit"
        /\ faults' = IF ok THEN faults ELSE faults + 1
    /\ conn_broken' = FALSE /\ tx_aborted' = FALSE
    /\ prior' = [accounts |-> accounts, connections |-> connections]
    /\ UNCHANGED <<dbvars, run, locals, report, store_log, acc_batch, conn_batch,
                   previous, last>>

\* Step 1: create_tables_if_not_exist(conn).  An exception that leaves it is
\* caught by main's except: the run goes to its finally.
CreateTables ==
    /\ pc = "create"
    /\ \E fail \in FailChoices :
        LET res == create_tables_if_not_exist(DB, fail)
        IN  /\ StoreCallMade(fail, res)
            /\ store_log' = Logged("create_tables_if_not_exist", res)
            /\ pc' = IF res.outcome = "raised" THEN "finally" ELSE "empty"
    /\ UNCHANGED <<run, conn_open, locals, report, acc_batch, conn_batch, prior,
                   previous, last>>

\* Step 2: empty_tables(conn), with the same way out.
EmptyTables ==
    /\ pc = "empty"
    /\ \E fail \in FailChoices :
        LET res == empty_tables(DB, fail)
        IN  /\ StoreCallMade(fail, res)
            /\ store_log' = Logged("empty_tables", res)
            /\ pc' = IF res.outcome = "raised" THEN "finally" ELSE "fetch_seed"
    /\ UNCHANGED <<run, conn_open, locals, report, acc_batch, conn_batch, prior,
                   previous, last>>

\* fetch_account_info(session, handle): the JSON body, whatever it is, or None
\* on any exception (transport error, non-2xx status, a body that is not JSON).
fetch_account_info(handle) == {None} \cup ProfileBodies(handle)

\* The upstream answers the fetch of handle h with r.  A run that replays the
\* previous run's upstream gets that run's answer again, when that run made
\* the fetch (replayed is Pending when it did not); otherwise any answer but
\* the profile asked for is an anomaly the environment produces.
Answered(r, h, replayed) ==
    IF previous.replay /\ replayed # Pending THEN r = replayed /\ faults' = faults
    ELSE IF FetchedProfile(r, h) THEN faults' = faults
    ELSE faults < MaxFaults /\ faults' = faults + 1

\* Step 3, first half: choltern_data = await fetch_account_info(session, SEED).
FetchSeed ==
    /\ pc = "fetch_seed"
    /\ \E r \in fetch_account_info(SEED) :
        /\ Answered(r, SEED, previous.choltern_data)
        /\ choltern_data' = r
    /\ pc' = "add_seed"
    /\ UNCHANGED <<dbvars, run, conn_open, conn_broken, tx_aborted, follows, following_list,
                   accounts_data, pending, total_accounts, report, history, last>>

\* Mutant: main() has no finally; an exception ends the process as it is.
AddSeedNoFinally ==
    /\ pc = "add_seed"
    /\ \E fail \in FailChoices :
        LET res == add_accounts(DB, <<choltern_data>>, fail)
        IN  /\ StoreCallMade(fail, res)
            /\ store_log' = Logged("add_accounts", res)
            /\ pc' = IF res.outcome = "raised" THEN "done" ELSE "fetch_follows"
    /\ UNCHANGED <<run, conn_open, locals, report, acc_batch, conn_batch, prior,
                   previous, last>>

\* Step 3, second half: add_accounts(conn, [choltern_data]).  An exception that
\* leaves it leaves asyncio.run and is caught by main's except: the run goes
\* to its finally.
AddSeed ==
    /\ pc = "add_seed"
    /\ \E fail \in FailChoices :
        LET res == add_accounts(DB, <<choltern_data>>, fail)
        IN  /\ StoreCallMade(fail, res)
            /\ store_log' = Logged("add_accounts", res)
            /\ pc' = IF res.outcome = "raised" THEN "finally" ELSE "fetch_follows"
    /\ UNCHANGED <<run, conn_open, locals, report, acc_batch, conn_batch, prior,
                   previous, last>>

\* What getFollows can answer: the handles of the 'follows' list, any handles
\* in any order; the code neither removes a repeated handle nor the seed.
FollowLists == SeqsUpTo(Handles, MaxFollows)

\* A follow-list of distinct accounts other than the seed.
PlainFollowList(fl) ==
    /\ \A i \in 1..Len(fl), j \in 1..Len(fl) : fl[i] = fl[j] => i = j
    /\ \A i \in 1..Len(fl) : fl[i] # SEED

\* The run replays the follow-list request of the previous run: the upstream
\* is unchanged and the previous run made the request.
FollowsReplayed == previous.replay /\ previous.follows # "none"

\* Mutant: raise_for_status is not called, so that an error answer is read as a
\* follow-list and the fan-out is issued all the same.
FetchFollowsUnchecked ==
    /\ pc = "fetch_follows"
    /\ \E st \in {"ok", "failed"}, fl \in FollowLists :
          /\ IF FollowsReplayed
             THEN previous.follows = st /\ previous.following_list = fl
                  /\ faults' = faults
             ELSE IF st = "ok" /\ PlainFollowList(fl) THEN faults' = faults
             ELSE faults < MaxFaults /\ faults' = faults + 1
          /\ follows' = st
          /\ following_list' = fl
          /\ accounts_data' = [i \in 1..Len(fl) |-> Pending]
          /\ pending' = 1..Len(fl)
          /\ pc' = "gather"
    /\ UNCHANGED <<dbvars, run, conn_open, conn_broken, tx_aborted, choltern_data,
                   total_accounts, report, history, last>>

\* Step 4, add_followed_accounts: the follow-list request.  On an exception the
\* except of add_followed_accounts prints and the function returns.  Otherwise
\* one fetch_account_info task per entry of the list is handed to gather.
FetchFollows ==
    /\ pc = "fetch_follows"
    /\ \/ /\ IF FollowsReplayed THEN previous.follows = "failed" /\ faults' = faults
             ELSE faults < MaxFaults /\ faults' = faults + 1
          /\ follows' = "failed"
          /\ pc' = "write"
          /\ UNCHANGED <<following_list, accounts_data, pending>>
       \/ \E fl \in FollowLists :
          /\ IF FollowsReplayed
             THEN previous.follows = "ok" /\ previous.following_list = fl
                  /\ faults' = faults
             ELSE IF PlainFollowList(fl) THEN faults' = faults
             ELSE faults < MaxFaults /\ faults' = faults + 1
          /\ follows' = "ok"
          /\ following_list' = fl
          /\ accounts_data' = [i \in 1..Len(fl) |-> Pending]
          /\ pending' = 1..Len(fl)
          /\ pc' = "gather"
    /\ UNCHANGED <<dbvars, run, conn_open, conn_broken, tx_aborted, choltern_data,
                   total_accounts, report, history, last>>

\* What the previous run got from the i-th task of its fan-out, Pending when
\* it had no such task.
ReplayedResult(i) ==
    IF i \in DOMAIN previous.accounts_data THEN previous.accounts_data[i] ELSE Pending

\* One task of the fan-out returns; gather keeps the results in task order.
CompleteFetch ==
    /\ pc = "gather"
    /\ \E i \in pending :
        \E r \in fetch_account_info(following_list[i]) :
            /\ Answered(r, following_list[i], ReplayedResult(i))
            /\ accounts_data' = [accounts_data EXCEPT ![i] = r]
            /\ pending' = pending \ {i}
    /\ UNCHANGED <<dbvars, pc, run, conn_open, conn_broken, tx_aborted, choltern_data,
                   follows, following_list, total_accounts, report, history, last>>

\* Mutant: the results are used without awaiting gather, whatever tasks are
\* still outstanding.
AddFollowedAccountsWithoutJoin ==
    /\ pc = "gather"
    /\ \E fail \in FailChoices :
        LET res == add_accounts(DB, accounts_data, fail)
        IN  /\ StoreCallMade(fail, res)
            /\ store_log' = Logged("add_accounts", res)
            /\ acc_batch' = IF RaisesKeyError(accounts_data) THEN acc_batch
                            ELSE <<res.records>>
            /\ pc' = IF res.outcome = "raised" THEN "write" ELSE "add_connections"
    /\ UNCHANGED <<run, conn_open, locals, report, conn_batch, prior, previous, last>>

\* gather has returned: add_accounts(conn, accounts_data).  An exception that
\* leaves it is caught by the except of add_followed_accounts, which skips
\* add_connections.
AddFollowedAccounts ==
    /\ pc = "gather"
    /\ pending = {}
    /\ \E fail \in FailChoices :
        LET res == add_accounts(DB, accounts_data, fail)
        IN  /\ StoreCallMade(fail, res)
            /\ store_log' = Logged("add_accounts", res)
            /\ acc_batch' = IF RaisesKeyError(accounts_data) THEN acc_batch
                            ELSE <<res.records>>
            /\ pc' = IF res.outcome = "raised" THEN "write" ELSE "add_connections"
    /\ UNCHANGED <<run, conn_open, locals, report, conn_batch, prior, previous, last>>

\* Mutant: the pairs are built the wrong way round.
connections_data_reversed(handle, fl) == [i \in 1..Len(fl) |-> <<fl[i], handle>>]

\* connections_data = [(handle, following['handle']) for following in following_list]
connections_data(handle, fl) == [i \in 1..Len(fl) |-> <<handle, fl[i]>>]

\* add_connections(conn, connections_data); an exception that leaves it is
\* caught by the except of add_followed_accounts.
AddFollowedConnections ==
    /\ pc = "add_connections"
    /\ \E fail \in FailChoices :
        LET cd == connections_data(SEED, following_list)
            res == add_connections(DB, cd, fail)
        IN  /\ StoreCallMade(fail, res)
            /\ store_log' = Logged("add_connections", res)
            /\ conn_batch' = <<cd>>
    /\ pc' = "write"
    /\ UNCHANGED <<run, conn_open, locals, report, acc_batch, prior, previous, last>>

\* How write_to_file can end: "both" files written, or an exception, which its
\* except prints without a rollback, at
\*   "accounts_select"      SELECT * FROM accounts raises: the transaction aborted;
\*   "accounts_lost"        the connection is lost there;
\*   "accounts_open"        open('accounts_data.txt', 'w') raises;
\*   "accounts_write"       a write to the file raises after the open emptied it;
\*   "connections_select", "connections_lost", "connections_open",
\*   "connections_write"    the same for the connections, the accounts file
\*                          being written.
WriteEnds ==
    {"both", "accounts_select", "accounts_lost", "accounts_open", "accounts_write",
     "connections_select", "connections_lost", "connections_open", "connections_write"}

\* On a broken connection conn.cursor() raises; in an aborted transaction and
\* without tables the first SELECT raises, unless the connection is lost there.
WriteForced == conn_broken \/ tx_aborted \/ ~tables

WriteChoices ==
    IF conn_broken THEN {"accounts_lost"}
    ELSE IF tx_aborted \/ ~tables THEN {"accounts_select", "accounts_lost"}
    ELSE IF faults < MaxFaults THEN WriteEnds
    ELSE {"both"}

\* What a file can hold when a write raised after the open: some of the rows,
\* with or without a piece of a further row.
PartialFiles(rows) ==
    {[rows |-> S, cut |-> c] : S \in (SUBSET rows) \ {rows}, c \in BOOLEAN}

\* Step 5: write_to_file(conn): the accounts table to one file, then the
\* connections table to the other.
WriteToFile ==
    /\ pc = "write"
    /\ \E w \in WriteChoices :
        /\ \/ /\ w = "both"
              /\ report' = [written |-> TRUE, accounts_file |-> WholeFile(accounts),
                            connections_file |-> WholeFile(connections)]
           \/ /\ w \in {"accounts_select", "accounts_lost", "accounts_open"}
              /\ report' = report
           \/ /\ w = "accounts_write"
              /\ \E f \in PartialFiles(accounts) :
                    report' = [report EXCEPT !.written = TRUE, !.accounts_file = f]
           \/ /\ w \in {"connections_select", "connections_lost", "connections_open"}
              /\ report' = [report EXCEPT !.written = TRUE,
                                          !.accounts_file = WholeFile(accounts)]
           \/ /\ w = "connections_write"
              /\ \E f \in PartialFiles(connections) :
                    report' = [written |-> TRUE, accounts_file |-> WholeFile(accounts),
                               connections_file |-> f]
        /\ conn_broken' = (conn_broken \/ w \in {"accounts_lost", "connections_lost"})
        /\ tx_aborted' = (tx_aborted \/ w \in {"accounts_select", "connections_select"})
        /\ faults' = IF w # "both" /\ ~WriteForced THEN faults + 1 ELSE faults
    /\ pc' = "totals"
    /\ UNCHANGED <<dbvars, run, conn_open, locals, history, last>>

\* How the two queries of steps 6 and 7 can end: both return ("ok"); the SUM
\* or the COUNT raises ("statement"), and when it is the SUM the COUNT raises
\* after it, in the aborted transaction; the connection is lost in one of
\* them ("lost").  Neither function rolls back.
CountChoices ==
    IF conn_broken THEN {"lost"}
    ELSE IF tx_aborted \/ ~tables THEN {"statement", "lost"}
    ELSE IF faults < MaxFaults THEN {"ok", "statement", "lost"}
    ELSE {"ok"}

\* Step 6: print_total_following_count_sum(conn) prints.
\* Step 7: total_accounts = count_accounts(conn), 0 when the query raises; the
\* timing lines are printed.
PrintTotals ==
    /\ pc = "totals"
    /\ \E c \in CountChoices :
        /\ total_accounts' = IF c = "ok" THEN Cardinality(accounts) ELSE 0
        /\ conn_broken' = (conn_broken \/ c = "lost")
        /\ tx_aborted' = (tx_aborted \/ c = "statement")
        /\ faults' = IF c # "ok" /\ ~WriteForced THEN faults + 1 ELSE faults
    /\ pc' = "finally"
    /\ UNCHANGED <<dbvars, run, conn_open, choltern_data, follows,
                   following_list, accounts_data, pending, report, history, last>>

\* finally: conn.close()
Close ==
    /\ pc = "finally"
    /\ conn_open' = FALSE
    /\ pc' = "done"
    /\ UNCHANGED <<dbvars, run, conn_broken, tx_aborted, faults, locals, report, history,
                   last>>

ResetRun ==
    /\ pc \in {"done", "exit"}
    /\ run < MaxRuns
    /\ run' = run + 1
    /\ pc' = "connect"
    /\ choltern_data' = Pending /\ follows' = "none" /\ following_list' = <<>>
    /\ accounts_data' = <<>> /\ pending' = {}
    /\ total_accounts' = 0
    /\ store_log' = <<>> /\ acc_batch' = <<>> /\ conn_batch' = <<>>
    /\ UNCHANGED <<dbvars, conn_open, conn_broken, tx_aborted, faults, report, prior, last>>

\* The program is started again; the upstream API may answer anything.
NextRun ==
    /\ ResetRun
    /\ previous' = NoPrevious

\* The program is started again against an unchanged upstream API: every fetch
\* of the new run ends as the same fetch of the previous run did.
Rerun ==
    /\ ResetRun
    /\ pc = "done"
    /\ previous' = [replay |-> TRUE, choltern_data |-> choltern_data,
                    follows |-> follows, following_list |-> following_list,
                    accounts_data |-> accounts_data, store_log |-> store_log,
                    accounts |-> accounts, connections |-> connections]

Next ==
    \/ Connect \/ CreateTables \/ EmptyTables \/ FetchSeed \/ AddSeed
    \/ FetchFollows \/ CompleteFetch \/ AddFollowedAccounts
    \/ AddFollowedConnections \/ WriteToFile \/ PrintTotals
    \/ Close \/ NextRun \/ Rerun

Spec == Init /\ [][Next]_vars

\* One run of main() from start to end.  main() is sequential code and every
\* await in it returns (a response, or an exception that is caught), so a step
\* that can be taken is taken.
RunStep ==
    \/ Connect \/ CreateTables \/ EmptyTables \/ FetchSeed \/ AddSeed
    \/ FetchFollows \/ CompleteFetch \/ AddFollowedAccounts
    \/ AddFollowedConnections \/ WriteToFile \/ PrintTotals \/ Close

SpecRun == Init /\ [][RunStep]_vars /\ WF_vars(RunStep)

\* ------------------------------------------------------------ store driver
\* The three store operations called in any order with any batch, as a caller
\* other than main() may call them, on a database whose tables exist.
\* The driver's batches name two accounts.
StoreHandles == {SEED, "bob"}
AccountBatches ==
    SeqsUpTo({None, NoHandleBody, NullHandleBody, NonObjectBody}
             \cup {FullProfile(h) : h \in StoreHandles}
             \cup {BareProfile(h) : h \in StoreHandles}, MaxBatch)
ConnectionBatches == SeqsUpTo(StoreHandles \X StoreHandles, MaxBatch)

InitStore ==
    /\ tables = TRUE /\ accounts = {} /\ connections = {}
    /\ accounts_seq = 0 /\ connections_seq = 0
    /\ pc = "store" /\ run = 1 /\ conn_open = TRUE /\ conn_broken = FALSE
    /\ tx_aborted = FALSE
    /\ faults = 0
    /\ choltern_data = Pending /\ follows = "none" /\ following_list = <<>>
    /\ accounts_data = <<>> /\ pending = {}
    /\ total_accounts = 0
    /\ report = NoReport
    /\ store_log = <<>> /\ acc_batch = <<>> /\ conn_batch = <<>>
    /\ prior = [accounts |-> {}, connections |-> {}]
    /\ previous = NoPrevious
    /\ last = NoCall

\* What the driver remembers of a call: its number, the operation, its
\* argument, how it ended, the database before it, whether it repeats a
\* committed call that came right before it (same operation, same argument),
\* what the storage did to it, whether the call right before it was an
\* empty_tables that committed, and the handles stored before that call.
Called(op, arg, fail, res) ==
    [op |-> op, n |-> last.n + 1, arg |-> arg, fail |-> fail, outcome |-> res.outcome,
     applied |-> res.applied,
     pre |-> DB,
     again |-> IF last.op = op /\ last.outcome = "committed" THEN last.arg = arg
               ELSE FALSE,
     reset |-> last.op = "empty_tables" /\ last.outcome = "committed",
     seen |-> IF last.n = 0 THEN {} ELSE {a.handle : a \in last.pre.accounts}]

StoreUnchanged ==
    UNCHANGED <<pc, run, conn_open, locals, report, history>>

StoreAddAccounts ==
    /\ pc = "store"
    /\ last.n < MaxCalls
    /\ \E batch \in AccountBatches, fail \in FailChoices :
        LET res == add_accounts(DB, batch, fail)
        IN  /\ StoreCallMade(fail, res)
            /\ last' = Called("add_accounts", batch, fail, res)
    /\ StoreUnchanged

StoreAddConnections ==
    /\ pc = "store"
    /\ last.n < MaxCalls
    /\ \E batch \in ConnectionBatches, fail \in FailChoices :
        LET res == add_connections(DB, batch, fail)
        IN  /\ StoreCallMade(fail, res)
            /\ last' = Called("add_connections", batch, fail, res)
    /\ StoreUnchanged

StoreEmptyTables ==
    /\ pc = "store"
    /\ last.n < MaxCalls
    /\ \E fail \in FailChoices :
        LET res == empty_tables(DB, fail)
        IN  /\ StoreCallMade(fail, res)
            /\ last' = Called("empty_tables", <<>>, fail, res)
    /\ StoreUnchanged

NextStore == StoreAddAccounts \/ StoreAddConnections \/ StoreEmptyTables

SpecStore == InitStore /\ [][NextStore]_vars

\* ------------------------------------------------------------ reading the store
StoredHandles(rows) == {a.handle : a \in rows}

\* The stored edges as (follower handle, following handle) pairs.
EdgeHandles(rows, conns) ==
    {e \in Handles \X Handles :
        \E c \in conns, a \in rows, b \in rows :
            /\ a.handle = e[1] /\ c.follower_id = a.account_id
            /\ b.handle = e[2] /\ c.following_id = b.account_id}

\* No store call of the run so far was rolled back or left by an exception.
NoStoreFailure ==
    \A i \in 1..Len(store_log) : store_log[i].outcome \notin {"rolled_back", "raised"}

RunEnded == pc = "done"

\* ------------------------------------------------------------ claims
\* C1: when the seed profile fetch, the follow-list fetch, every followed-profile
\* fetch and every store operation succeed, the accounts stored at the end of
\* the run are exactly the seed and the handles of the follow-list, and the
\* stored edges are exactly the pairs (seed, h), h in the follow-list.
AllSucceeded ==
    /\ FetchedProfile(choltern_data, SEED)
    /\ follows = "ok"
    /\ pending = {}
    /\ \A i \in 1..Len(following_list) :
          FetchedProfile(accounts_data[i], following_list[i])
    /\ NoStoreFailure

C1_SeedPlusFollows ==
    (RunEnded /\ AllSucceeded) =>
        /\ StoredHandles(accounts) = {SEED} \cup Range(following_list)
        /\ EdgeHandles(accounts, connections) =
              {<<SEED, h>> : h \in Range(following_list)}
        /\ Cardinality(accounts) = Cardinality({SEED} \cup Range(following_list))
        /\ Cardinality(connections) = Cardinality(Range(following_list))

C1_Witness ==
    /\ RunEnded /\ AllSucceeded
    /\ following_list = <<"bob", "carol">>
    /\ StoredHandles(accounts) = {SEED, "bob", "carol"}
    /\ Cardinality(connections) = 2

\* C2: if the seed's profile fetch fails, the whole crawl fails: the run stores
\* no account and no edge.  (That the follow-list is not requested either fails
\* as soon as FetchFollows is taken, which no outcome of FetchSeed prevents.)
C2_SeedFailureStoresNothing ==
    (RunEnded /\ choltern_data = None /\ NoStoreFailure) =>
        /\ accounts \subseteq prior.accounts
        /\ connections \subseteq prior.connections

\* C3: whichever followed-profile fetches fail (by an exception, or by a
\* malformed payload: a body without a handle), add_followed_accounts hands
\* add_accounts exactly the profiles whose fetch succeeded and add_connections
\* all N pairs (seed, h).
Malformed(d) ==
    d # None /\ d # Pending /\ ("handle" \notin DOMAIN d \/ d["handle"] = NULL)

SucceededRecords ==
    AccountRecords([i \in 1..Len(following_list) |->
        IF FetchedProfile(accounts_data[i], following_list[i])
        THEN accounts_data[i] ELSE None])

C3_PartialFailureBatches ==
    (/\ pc \in {"write", "totals", "finally", "done"}
     /\ FetchedProfile(choltern_data, SEED) /\ follows = "ok" /\ ~conn_broken
     /\ PlainFollowList(following_list)
     /\ \A i \in 1..Len(following_list) :
           \/ FetchedProfile(accounts_data[i], following_list[i])
           \/ accounts_data[i] = None
           \/ Malformed(accounts_data[i])) =>
        /\ acc_batch = <<SucceededRecords>>
        /\ conn_batch = <<connections_data(SEED, following_list)>>

\* C4: a followed-profile fetch that returns a body without a handle costs only
\* that account: the other fetched accounts and their edges are still stored.
C4_MalformedBodyDropsOne ==
    (/\ RunEnded /\ FetchedProfile(choltern_data, SEED) /\ follows = "ok"
     /\ PlainFollowList(following_list)
     /\ \A i \in 1..Len(store_log) : store_log[i].outcome # "rolled_back"
     /\ \E j \in 1..Len(following_list) : accounts_data[j] = NoHandleBody) =>
        \A i \in 1..Len(following_list) :
            FetchedProfile(accounts_data[i], following_list[i]) =>
                /\ following_list[i] \in StoredHandles(accounts)
                /\ <<SEED, following_list[i]>> \in EdgeHandles(accounts, connections)

\* C5: add_connections, given a batch in which some edge names a handle that is
\* not stored, stores no row for that edge, raises nothing and stores every
\* other edge of the batch whose two handles are stored, in every call that
\* the storage does not fail for a reason of its own.
Resolvable(rows, e) == e[1] \in StoredHandles(rows) /\ e[2] \in StoredHandles(rows)

C5_AbsentHandleSkipped ==
    (last.op = "add_connections" /\ last.fail.kind = "none") =>
        /\ last.outcome \in {"no_data", "nothing_resolved", "committed"}
        /\ accounts = last.pre.accounts
        /\ EdgeHandles(accounts, connections) =
              EdgeHandles(last.pre.accounts, last.pre.connections)
              \cup {e \in Range(last.arg) : Resolvable(last.pre.accounts, e)}

C5_Witness ==
    /\ last.op = "add_connections" /\ last.outcome = "committed"
    /\ \E e \in Range(last.arg) :
          /\ ~Resolvable(last.pre.accounts, e)
          /\ e \notin EdgeHandles(accounts, connections)
    /\ \E e \in Range(last.arg) :
          /\ Resolvable(last.pre.accounts, e)
          /\ e \notin EdgeHandles(last.pre.accounts, last.pre.connections)
          /\ e \in EdgeHandles(accounts, connections)

\* C6: in every state of the store, whatever calls were made and however they
\* ended, each stored edge's follower and following are stored accounts.
C6_EdgesReferToStoredAccounts ==
    \A c \in connections :
        /\ \E a \in accounts : a.account_id = c.follower_id
        /\ \E a \in accounts : a.account_id = c.following_id

C6_Witness ==
    /\ connections # {}
    /\ last.op = "add_accounts" /\ last.outcome = "rolled_back"
    /\ last.n = 3

\* C7: no two stored edges have the same (follower, following) pair; an
\* add_connections call with a pair that is already stored, or that comes twice
\* in the batch, raises nothing unless the storage fails it for a reason of
\* its own, leaves the stored edges as they are and leaves exactly one stored
\* edge for the pair.
EdgesOfPair(rows, conns, e) ==
    {c \in conns : \E a \in rows, b \in rows :
        /\ a.handle = e[1] /\ c.follower_id = a.account_id
        /\ b.handle = e[2] /\ c.following_id = b.account_id}

C7_EdgePairUnique ==
    /\ \A c1 \in connections, c2 \in connections :
          (c1.follower_id = c2.follower_id /\ c1.following_id = c2.following_id)
              => c1 = c2
    /\ last.op = "add_connections" =>
          /\ last.fail.kind = "none" =>
                last.outcome \in {"no_data", "nothing_resolved", "committed"}
          /\ last.pre.connections \subseteq connections
          /\ \A e \in Range(last.arg) :
                (\/ e \in EdgeHandles(last.pre.accounts, last.pre.connections)
                 \/ last.outcome = "committed" /\ Resolvable(last.pre.accounts, e))
                    => Cardinality(EdgesOfPair(accounts, connections, e)) = 1

C7_Witness ==
    /\ last.op = "add_connections" /\ last.outcome = "committed"
    /\ Len(last.arg) = 2 /\ last.arg[1] = last.arg[2]
    /\ last.arg[1] \notin EdgeHandles(last.pre.accounts, last.pre.connections)
    /\ Cardinality(EdgesOfPair(accounts, connections, last.arg[1])) = 1
    /\ connections_seq = last.pre.connections_seq + 2

\* C8: an add_accounts call that repeats the committed call right before it,
\* with the same batch, changes no stored row: one row per handle, every row
\* (account_id, display_name, description, following_count) as it was.
C8_UpsertAccountsIdempotent ==
    (last.op = "add_accounts" /\ last.again) =>
        /\ accounts = last.pre.accounts
        /\ connections = last.pre.connections
        /\ \A a1 \in accounts, a2 \in accounts : a1.handle = a2.handle => a1 = a2

C8_Witness ==
    /\ last.op = "add_accounts" /\ last.again /\ last.outcome = "committed"
    /\ Cardinality(accounts) = 2
    /\ \E a \in accounts : a.following_count = 1
    /\ accounts_seq = last.pre.accounts_seq + 2

\* C9: a run that replays the upstream of the run before it, and whose store
\* calls end as they did in the run before (each call ending the same way, its
\* transaction committed by the server in both runs or in neither), leaves the stored accounts (their
\* handle, display_name, description and following_count) and the stored edges
\* (as pairs of handles) as that run left them, no account and no edge twice.
AccountData(rows) ==
    {[handle |-> a.handle, display_name |-> a.display_name,
      description |-> a.description, following_count |-> a.following_count] : a \in rows}

C9_RerunSameStore ==
    (RunEnded /\ previous.replay /\ store_log = previous.store_log) =>
        /\ AccountData(accounts) = AccountData(previous.accounts)
        /\ EdgeHandles(accounts, connections) =
              EdgeHandles(previous.accounts, previous.connections)
        /\ Cardinality(StoredHandles(accounts)) = Cardinality(accounts)
        /\ Cardinality(EdgeHandles(accounts, connections)) = Cardinality(connections)

C9_Witness ==
    /\ RunEnded /\ previous.replay /\ store_log = previous.store_log
    /\ NoStoreFailure
    /\ StoredHandles(accounts) = {SEED, "bob", "carol"}
    /\ Cardinality(connections) = 2

\* C9 as stated: the same fetch outcomes alone give the same stored accounts
\* and edges after the second run.
C9_RerunSameFetches ==
    (RunEnded /\ previous.replay) =>
        /\ StoredHandles(accounts) = StoredHandles(previous.accounts)
        /\ EdgeHandles(accounts, connections) =
              EdgeHandles(previous.accounts, previous.connections)

\* C10: at the end of any run that went as far as its empty_tables, the store
\* holds only accounts and edges the run observed; nothing an earlier run
\* stored remains.
ObservedHandles ==
    {d["handle"] : d \in {b \in {choltern_data} \cup Range(accounts_data) :
                              "handle" \in DOMAIN b}}

C10_RunReplacesPriorState ==
    (RunEnded /\ Len(store_log) >= 2) =>
        /\ StoredHandles(accounts) \subseteq ObservedHandles
        /\ EdgeHandles(accounts, connections) \subseteq
              {<<SEED, h>> : h \in Range(following_list)}

\* C11: after an empty_tables that committed, the two tables read back empty;
\* the add_accounts call that follows it gives the first account of its batch
\* the identity 1 and the others the identities after it, whether or not the
\* handle was stored before the reset.
C11_ResetCompleteness ==
    /\ (last.op = "empty_tables" /\ last.outcome = "committed") =>
          accounts = {} /\ connections = {}
    /\ (last.op = "add_accounts" /\ last.reset /\ last.outcome = "committed") =>
          LET records == AccountRecords(last.arg)
          IN  /\ {a.account_id : a \in accounts} = 1..Len(records)
              /\ \A a \in accounts : a.handle = records[a.account_id].handle

C11_Witness ==
    /\ last.op = "add_accounts" /\ last.reset /\ last.outcome = "committed"
    /\ \E a \in accounts : a.account_id = 1 /\ a.handle \in last.seen
    /\ last.pre.accounts = {} /\ last.pre.accounts_seq = 0

\* C12: an add_accounts or add_connections call that the storage fails (the
\* statement or the commit raises, whether or not the rollback of the handler
\* returns) is never applied in part, and leaves the rows of earlier committed
\* calls alone: the stored accounts and edges are those before the call,
\* unless the connection was lost after the server had committed the
\* transaction of the call, and then the whole batch is stored.
BatchStored ==
    IF last.op = "add_accounts"
    THEN LET records == AccountRecords(last.arg)
         IN  /\ connections = last.pre.connections
             /\ StoredHandles(accounts) =
                   StoredHandles(last.pre.accounts) \cup {r.handle : r \in Range(records)}
             /\ \A a \in last.pre.accounts :
                   \E b \in accounts : b.account_id = a.account_id /\ b.handle = a.handle
             /\ \A i \in 1..Len(records) :
                   \E b \in accounts :
                       /\ b.handle = records[i].handle
                       /\ b.display_name = records[i].display_name
                       /\ b.description = records[i].description
                       /\ b.following_count = records[i].following_count
             /\ Cardinality(accounts) = Cardinality(StoredHandles(accounts))
    ELSE /\ accounts = last.pre.accounts
         /\ last.pre.connections \subseteq connections
         /\ EdgeHandles(accounts, connections) =
               EdgeHandles(last.pre.accounts, last.pre.connections)
               \cup {e \in Range(last.arg) : Resolvable(last.pre.accounts, e)}
         /\ Cardinality(connections) = Cardinality(EdgeHandles(accounts, connections))

C12_FailedBatchAtomic ==
    (/\ last.op \in {"add_accounts", "add_connections"}
     /\ last.outcome \in {"rolled_back", "raised"}) =>
        IF last.fail.kind = "lost_after_commit" /\ last.applied
        THEN BatchStored
        ELSE accounts = last.pre.accounts /\ connections = last.pre.connections

\* The connection is lost after the server committed a batch of two accounts,
\* one stored before and one new: the call raises and both rows are stored.
C12_Witness ==
    /\ last.op = "add_accounts" /\ last.outcome = "raised" /\ last.applied
    /\ Len(AccountRecords(last.arg)) = 2
    /\ last.pre.accounts # {}
    /\ Cardinality(accounts) = Cardinality(last.pre.accounts) + 1
    /\ accounts # last.pre.accounts

\* C12 as stated: after every add_accounts or add_connections call that the
\* storage fails, the stored accounts and edges equal those before the call.
C12_FailedBatchRolledBack ==
    (/\ last.op \in {"add_accounts", "add_connections"}
     /\ last.outcome \in {"rolled_back", "raised"}) =>
        /\ accounts = last.pre.accounts
        /\ connections = last.pre.connections

\* C13: once the storage has failed an add_accounts or add_connections call of
\* the run (the call was rolled back, or the connection was lost in it), the
\* run goes on and reaches write_to_file before it shuts down: it enters its
\* finally only after write_to_file and the totals.
FailedUpsert ==
    \E i \in 1..Len(store_log) :
        /\ store_log[i].op \in {"add_accounts", "add_connections"}
        /\ \/ store_log[i].outcome = "rolled_back"
           \/ store_log[i].outcome = "raised" /\ conn_broken

ReportReached == pc = "totals" /\ conn_open

C13_StoreFailureReachesReport ==
    /\ (FailedUpsert /\ pc \in {"fetch_follows", "gather", "add_connections", "write"})
          ~> ReportReached
    /\ [][(FailedUpsert' /\ pc' = "finally") => pc = "totals"]_vars

\* C14: a run that obtained its connection closes it in the end, whatever
\* fetch failed, whatever store call was rolled back and whether or not an
\* exception reached main's except; a run that has ended holds no connection.
C14_ConnectionClosed ==
    /\ conn_open ~> (pc = "done" /\ ~conn_open)
    /\ [](pc = "done" => ~conn_open)

\* The run was cut short by the KeyError of the seed's add_accounts.
C14_Witness ==
    /\ pc = "done" /\ ~conn_open
    /\ Len(store_log) = 3 /\ store_log[3].outcome = "raised"

\* C15: when the follow-list request of the run failed, no followed-profile
\* fetch is issued, add_accounts and add_connections are not called for the
\* followed accounts, and the run stores no account but the one the seed's
\* fetch returned and no edge.
SeedAnswerHandles ==
    IF "handle" \in DOMAIN choltern_data THEN {choltern_data["handle"]} ELSE {}

C15_FollowListFailure ==
    follows = "failed" =>
        /\ following_list = <<>> /\ accounts_data = <<>> /\ pending = {}
        /\ acc_batch = <<>> /\ conn_batch = <<>>
        /\ Len(store_log) = 3
        /\ StoredHandles(accounts) \subseteq
              StoredHandles(prior.accounts) \cup SeedAnswerHandles
        /\ connections \subseteq prior.connections

C15_Witness ==
    /\ RunEnded /\ follows = "failed" /\ NoStoreFailure
    /\ StoredHandles(accounts) = {SEED} /\ connections = {}
    /\ report.written /\ total_accounts = 1

\* C16: a call that is not an empty_tables whose TRUNCATE the server committed
\* deletes no stored account and changes no account_id; an add_accounts whose
\* transaction the server committed leaves, for every
\* record of its batch, one row with the record's display_name, description
\* and following_count, under the account_id the handle had if it was stored;
\* every stored row has network_followed_count and min_distance_from_start 0.
C16_UpdatedInPlace ==
    /\ (last.op \in {"add_accounts", "add_connections"}
         \/ (last.op = "empty_tables" /\ ~last.applied)) =>
          \A a \in last.pre.accounts :
              \E b \in accounts : b.account_id = a.account_id /\ b.handle = a.handle
    /\ (last.op = "add_accounts" /\ last.applied) =>
          LET records == AccountRecords(last.arg)
          IN  \A i \in 1..Len(records) :
                  LET rows == {b \in accounts : b.handle = records[i].handle}
                  IN  /\ Cardinality(rows) = 1
                      /\ \A b \in rows :
                            /\ b.display_name = records[i].display_name
                            /\ b.description = records[i].description
                            /\ b.following_count = records[i].following_count
    /\ \A b \in accounts :
          b.network_followed_count = 0 /\ b.min_distance_from_start = 0

\* A stored full profile is sighted again with the handle only: the same row,
\* its texts now NULL and its following_count 0.
C16_Witness ==
    /\ last.op = "add_accounts" /\ last.outcome = "committed"
    /\ \E a \in last.pre.accounts, b \in accounts :
          /\ a.account_id = b.account_id /\ a.handle = b.handle
          /\ a.display_name = "name" /\ a.following_count = 1
          /\ b.display_name = NULL /\ b.description = NULL /\ b.following_count = 0
    /\ Cardinality(accounts) = Cardinality(last.pre.accounts)

\* C17: while a fetch of the run is still to come or outstanding (the seed
\* profile, the follow-list, a followed profile), the run has written no
\* account and no edge: the tables hold at most what they held at its start.
FetchesCompleted ==
    choltern_data # Pending /\ follows # "none" /\ pending = {}

C17_WritesAfterAllFetches ==
    (/\ pc \in {"create", "empty", "fetch_seed", "add_seed", "fetch_follows", "gather"}
     /\ ~FetchesCompleted) =>
        /\ accounts \subseteq prior.accounts
        /\ connections \subseteq prior.connections

\* C18: while a task of the fan-out is outstanding the driver stays in gather
\* and no store call is made beyond the three made before the fan-out; past
\* gather no task is outstanding; result i is the answer to the fetch of the
\* i-th followed handle whatever the order of completion, so that the records
\* handed to add_accounts, and with them the stored rows, follow the order of
\* the follow-list.
C18_ForkJoin ==
    /\ pending # {} =>
          /\ pc = "gather"
          /\ Len(store_log) = 3 /\ acc_batch = <<>> /\ conn_batch = <<>>
    /\ (follows = "ok" /\ pc \in {"add_connections", "write", "totals", "finally", "done"}) =>
          /\ pending = {}
          /\ \A i \in 1..Len(accounts_data) : accounts_data[i] # Pending
    /\ follows = "ok" =>
          /\ Len(accounts_data) = Len(following_list)
          /\ \A i \in 1..Len(accounts_data) :
                /\ i \in pending <=> accounts_data[i] = Pending
                /\ i \notin pending =>
                      accounts_data[i] \in fetch_account_info(following_list[i])
    /\ acc_batch # <<>> => acc_batch[1] = AccountRecords(accounts_data)
    /\ (RunEnded /\ AllSucceeded /\ PlainFollowList(following_list)) =>
          \A i \in 1..Len(following_list) :
              \E a \in accounts : a.handle = following_list[i] /\ a.account_id = i + 1

\* The second task has returned, the first has not, and nothing was upserted.
C18_Witness ==
    /\ pc = "gather" /\ pending = {1} /\ Len(following_list) = 2
    /\ accounts_data[2] = FullProfile(following_list[2])
    /\ Len(store_log) = 3 /\ acc_batch = <<>>

\* C19: in every state of every run, the follower of each stored edge is the
\* stored account of the seed: the crawl goes one hop from the seed and stores
\* no edge that starts anywhere else.
C19_SeedIsFollower ==
    \A c \in connections :
        \E a \in accounts : a.handle = SEED /\ a.account_id = c.follower_id

\* The second run, whose reset failed, stores the seed after an account the
\* first run left, and the edge from the seed to that account.
C19_Witness ==
    /\ RunEnded /\ run = 2
    /\ \E c \in connections : c.follower_id = 2 /\ c.following_id = 1
    /\ \E a \in accounts : a.handle = SEED /\ a.account_id = 2

====
